---- MODULE Spec2Model ----
(***************************************************************************)
(* Verification model of the notebook scripts of PY-Codebase.              *)
(*                                                                         *)
(*  - Website-archiver.py: AdvancedWebArchiver, the crawl loop of          *)
(*    archive_website with its URL normalisation, robots.txt policy, link  *)
(*    rewriting and page/size limits (specification Spec).                 *)
(*  - Dailymotion-Dowloader.py: DailymotionDownloaderGUI, the button       *)
(*    handlers and the download worker thread (SpecDailymotion).           *)
(*  - YouTube-Music-MP3-Dowloader.py: MusicDownloaderGUI, the download     *)
(*    click handler and its worker threads (SpecMusic).                    *)
(*  - Website-archiver.py: the post-crawl steps and the interrupt handler  *)
(*    of archive_website (SpecArchive), termination of the crawl           *)
(*    (SpecCrawlFair), GoogleDriveManager and save_to_drive (SpecDrive),   *)
(*    robots.txt parsing and matching (SpecRobots), the buttons of         *)
(*    create_archiver_gui (SpecGui).                                       *)
(*  - Dailymotion-Dowloader.py: GoogleDriveManager.save_to_drive as the    *)
(*    download worker calls it (SpecDailymotion).                          *)
(*  - Tubi-video-Dowloader.py: on_batch_click (SpecTubi).                  *)
(*                                                                         *)
(* URL paths are sequences of tokens: "/" is the separator, one-letter     *)
(* tokens are characters of the site's paths.  str.startswith is the       *)
(* prefix relation on these sequences.                                     *)
(***************************************************************************)
EXTENDS Integers, Sequences, FiniteSets, TLC

VARIABLES
    \* AdvancedWebArchiver
    base_url,        \* self.base_url
    config,          \* self.config: MAX_PAGES, RESPECT_ROBOTS
    robots_rules,    \* self.robots_rules: agent -> [allow, disallow]
    visited_urls,    \* self.visited_urls
    urls_to_visit,   \* self.urls_to_visit
    url_to_local,    \* self.url_to_local: url -> local path
    stats,           \* self.stats
    saved,           \* processed HTML files on disk: page url -> hrefs written
    pc,              \* position of archive_website
    result,          \* value returned by archive_website
    req_count,       \* HTTP client: url -> number of session.get calls
    depth,           \* url -> link distance at which it was first queued
    caught,          \* which except clause of archive_website ran
    files,           \* local paths that exist under output_dir
    last_download,   \* the last download_with_progress call and its result
    post_step,       \* the next post-crawl step of archive_website
    steps,           \* the post-crawl and interrupt steps run so far, in order
    \* DailymotionDownloaderGUI
    dm_url,          \* self.url_input.value
    dm_info,         \* self.current_video_info
    dm_disabled,     \* .disabled of the fetch, download, cancel buttons and
                     \* of the quality dropdown
    dm_main,         \* position of the notebook's main thread (click handlers)
    dm_threads,      \* download_video threads, in start order: position of each
    dm_drive,        \* the Drive folder: file name -> thread whose copy it holds
    dm_dest,         \* thread -> destination chosen in save_to_drive
    \* MusicDownloaderGUI
    ym_url,          \* self.url_input.value
    ym_status,       \* self.status_label.value
    ym_threads,      \* start_download threads, in start order: position of each
    \* GoogleDriveManager of Website-archiver.py and the archive directory
    drv_mounted,     \* self.drive_mounted
    drv_path,        \* whether self.drive_path of the archiver is set
    drv_local,       \* files of the local archive directory
    drv_remote,      \* files of the Drive folder
    drv_last,        \* the last sync_to_drive / save_to_drive call
    \* Tubi downloader GUI, on_batch_click
    tubi_content,    \* lines of the uploaded file (content.split('\n'))
    tubi_urls,       \* urls
    tubi_i,          \* i of the for loop
    tubi_success,    \* success_count
    tubi_pc,         \* position of on_batch_click
    tubi_calls,      \* URLs passed to download_tubi_clean, in call order
    tubi_results,    \* whether each of these calls returned a file name
    \* robots.txt handling of AdvancedWebArchiver
    rb_content,      \* lines of the site's robots.txt that are still unparsed
    rb_last,         \* the last is_allowed_by_robots call: url and result
    \* create_archiver_gui
    gui_url,         \* url_input.value
    gui_disabled,    \* .disabled of drive_btn, download_btn and view_btn
    gui_pc,          \* position of on_start_click
    gui_status,      \* last line printed into status_output
    gui_runs         \* how each call of archive_website ended, in call order

arch_vars == <<base_url, config, robots_rules, visited_urls, urls_to_visit,
               url_to_local, stats, saved, pc, result, req_count, depth,
               caught, files, last_download, post_step, steps>>

dm_vars == <<dm_url, dm_info, dm_disabled, dm_main, dm_threads, dm_drive,
            dm_dest>>

ym_vars == <<ym_url, ym_status, ym_threads>>

drv_vars == <<drv_mounted, drv_path, drv_local, drv_remote, drv_last>>

tubi_vars == <<tubi_content, tubi_urls, tubi_i, tubi_success, tubi_pc,
               tubi_calls, tubi_results>>

rb_vars == <<rb_content, rb_last>>

gui_vars == <<gui_url, gui_disabled, gui_pc, gui_status, gui_runs>>

vars == <<arch_vars, dm_vars, ym_vars, drv_vars, tubi_vars, rb_vars, gui_vars>>

-----------------------------------------------------------------------------
(* Bounds *)

MaxPagesBound == 3
MaxThreads == 3
MaxFiles == 2
MaxLines == 6
MaxRobotsLines == 4
MaxRuns == 3

-----------------------------------------------------------------------------
(* Config (scaled: one unit of size stands for 1 GiB) *)

MAX_FILE_SIZE == 2
MAX_TOTAL_SIZE == 3
USER_AGENT == "Mozilla/5.0"
MODIFY_HTML_FOR_LOCAL == TRUE

-----------------------------------------------------------------------------
(* URLs and hrefs *)

Url(scheme, netloc, path) == [scheme |-> scheme, netloc |-> netloc, path |-> path]

NoneUrl == Url("None", "", <<>>)

Href(k, u) == [k |-> k, url |-> u]

Range(s) == {s[i] : i \in DOMAIN s}

\* str.startswith
StartsWith(s, p) == Len(p) <= Len(s) /\ SubSeq(s, 1, Len(p)) = p

\* the site that is archived and what its pages link to
SiteUrl(path) == Url("https", "site", path)

Root  == SiteUrl(<<"/">>)
PageA == SiteUrl(<<"/", "a">>)
PageB == SiteUrl(<<"/", "b">>)
PageC == SiteUrl(<<"/", "c">>)
Priv  == SiteUrl(<<"/", "p", "/", "x">>)
Css   == SiteUrl(<<"/", "s">>)
Big   == SiteUrl(<<"/", "v">>)
Ext   == Url("https", "other", <<"/">>)
DataUrl == Url("data", "", <<"d">>)

SiteUrls == {Root, PageA, PageB, PageC, Priv, Css, Big}

StartUrls == {Root, Priv}

RelRef(path) == Href("rel", Url("", "", path))

\* href/src attributes of each page, in document order
Links(u) ==
    CASE u = Root  -> << RelRef(<<"/", "a">>), RelRef(<<"/", "b">>),
                         Href("abs", Css), Href("abs", Ext),
                         Href("data", DataUrl), Href("anchor", NoneUrl),
                         RelRef(<<"/", "p", "/", "x">>) >>
      [] u = PageA -> << RelRef(<<"/", "c">>), RelRef(<<"/">>),
                         Href("absfrag", PageB), Href("mailto", NoneUrl) >>
      [] u = PageB -> << RelRef(<<"/", "a">>), Href("abs", Css),
                         RelRef(<<"/", "v">>) >>
      [] u = PageC -> << RelRef(<<"/", "b">>) >>
      [] u = Priv  -> << RelRef(<<"/", "a">>) >>
      [] OTHER     -> << >>

ContentType(u) ==
    IF u = Css THEN "text/css"
    ELSE IF u = Big THEN "application/octet-stream"
    ELSE "text/html"

\* bytes of the response body
BodySize(u) == IF u = Css THEN 2 ELSE IF u = Big THEN 3 ELSE 1

\* what the server can answer: "ok" is a response with a Content-Length
\* header, "ok_chunked" one without, "fail" an exception of session.get or
\* raise_for_status.  URLs outside the site's own set (the data: URL, links
\* made from local paths) never yield a response body
Outcomes(u) == IF u \in SiteUrls THEN {"ok", "ok_chunked", "fail"} ELSE {"fail"}

\* robots.txt of the site as parse_robots_txt stores it
SiteRobots ==
    [a \in {"*", "otherbot"} |->
        IF a = "*" THEN [allow |-> << >>, disallow |-> << <<"/", "p">>, << >> >>]
                   ELSE [allow |-> << >>, disallow |-> << <<"/", "a">> >>]]

NoRobots == [a \in {} |-> [allow |-> << >>, disallow |-> << >>]]

-----------------------------------------------------------------------------
(* URL processing *)

\* is_allowed_by_robots with an Allow rule that wins at equal length
is_allowed_by_robots_AllowTies(url) ==
    IF ~config.RESPECT_ROBOTS THEN TRUE
    ELSE \A agent \in DOMAIN robots_rules :
            agent \in {"*", USER_AGENT} =>
                \A i \in DOMAIN robots_rules[agent].disallow :
                    LET disallow == robots_rules[agent].disallow[i] IN
                    (disallow # << >> /\ StartsWith(url.path, disallow)) =>
                        \E j \in DOMAIN robots_rules[agent].allow :
                            LET allow == robots_rules[agent].allow[j] IN
                            StartsWith(url.path, allow) /\ Len(allow) >= Len(disallow)

is_allowed_by_robots(url) ==
    IF ~config.RESPECT_ROBOTS THEN TRUE
    ELSE \A agent \in DOMAIN robots_rules :
            agent \in {"*", USER_AGENT} =>
                \A i \in DOMAIN robots_rules[agent].disallow :
                    LET disallow == robots_rules[agent].disallow[i] IN
                    (disallow # << >> /\ StartsWith(url.path, disallow)) =>
                        \E j \in DOMAIN robots_rules[agent].allow :
                            LET allow == robots_rules[agent].allow[j] IN
                            StartsWith(url.path, allow) /\ Len(allow) > Len(disallow)

normalize_url(h, base) ==
    CASE h.k \in {"anchor", "mailto"} -> NoneUrl
      [] h.k = "absfrag" -> h.url
      [] h.k = "data"    -> h.url
      [] h.k = "abs"     -> h.url
      [] h.k = "rel"     -> Url(base.scheme, base.netloc, h.url.path)
      [] h.k = "local"   -> Url(base.scheme, base.netloc, <<"/">> \o h.url.path)

base_domain == base_url.netloc

get_file_category(url, content_type) ==
    IF content_type = "text/css" THEN "css" ELSE "other"

LastSlash(path) ==
    LET S == {i \in DOMAIN path : path[i] = "/"} IN
    IF S = {} THEN 0 ELSE CHOOSE i \in S : \A j \in S : j <= i

Basename(path) == SubSeq(path, LastSlash(path) + 1, Len(path))

HasExt(path) == path # << >> /\ path[Len(path)] \in {".html", "index.html"}

generate_local_path(url, category) ==
    LET filename == IF Basename(url.path) = << >> THEN <<"index.html">>
                    ELSE Basename(url.path) IN
    IF category = "css" THEN <<"assets", "/", "css", "/">> \o filename
    ELSE IF url.path = << >> \/ url.path = <<"/">> THEN <<"index.html">>
    ELSE IF HasExt(url.path) THEN Tail(url.path)
    ELSE Tail(url.path) \o <<".html">>

\* os.path.relpath of a local copy, resolved against the archive root
LocalRef(local_path) == Href("local", Url("", "", local_path))

-----------------------------------------------------------------------------
(* HTML processing *)

IsExternal(url) == url.netloc # "" /\ url.netloc # base_domain

\* convert_url_for_local: the value the attribute is replaced by
convert_url_for_local(h, base, locals) ==
    LET absolute_url == normalize_url(h, base) IN
    IF h.k \in {"anchor", "mailto"} THEN h
    ELSE IF h.k = "data" THEN h
    ELSE IF absolute_url = NoneUrl THEN h
    ELSE IF IsExternal(absolute_url) THEN Href("abs", absolute_url)
    ELSE IF ~is_allowed_by_robots(absolute_url) THEN h
    ELSE IF absolute_url \in DOMAIN locals THEN LocalRef(locals[absolute_url])
    ELSE h

\* convert_url_for_local: whether the call adds the URL to urls_to_visit
convert_queues(h, base, visited, to_visit) ==
    LET absolute_url == normalize_url(h, base) IN
    /\ h.k \notin {"anchor", "mailto", "data"}
    /\ absolute_url # NoneUrl
    /\ ~IsExternal(absolute_url)
    /\ is_allowed_by_robots(absolute_url)
    /\ absolute_url \notin visited
    /\ absolute_url \notin to_visit

\* update_html_links: the rewritten attributes and the URLs it queues
update_html_links(soup, base, locals) ==
    [i \in DOMAIN soup |-> convert_url_for_local(soup[i], base, locals)]

update_html_queued(soup, base, visited, to_visit) ==
    {normalize_url(soup[i], base) :
        i \in {j \in DOMAIN soup : convert_queues(soup[j], base, visited, to_visit)}}

add_archive_overlay(soup, original_url) ==
    IF MODIFY_HTML_FOR_LOCAL
    THEN soup \o << Href("abs", original_url), RelRef(<<"/">>) >>
    ELSE soup

\* should_crawl_url without the test against visited_urls
should_crawl_url_NoVisited(url, visited, to_visit, st) ==
    /\ url \notin to_visit
    /\ ~IsExternal(url)
    /\ is_allowed_by_robots(url)
    /\ ~(st.total_pages >= config.MAX_PAGES)
    /\ ~(st.total_size >= MAX_TOTAL_SIZE)

should_crawl_url(url, visited, to_visit, st) ==
    /\ url \notin visited
    /\ url \notin to_visit
    /\ ~IsExternal(url)
    /\ is_allowed_by_robots(url)
    /\ ~(st.total_pages >= config.MAX_PAGES)
    /\ ~(st.total_size >= MAX_TOTAL_SIZE)

extract_urls_from_html(soup, base, visited, to_visit, st) ==
    {normalize_url(soup[i], base) :
        i \in {j \in DOMAIN soup :
                 /\ normalize_url(soup[j], base) # NoneUrl
                 /\ should_crawl_url(normalize_url(soup[j], base), visited, to_visit, st)}}

-----------------------------------------------------------------------------
(* archive_website *)

ZeroStats == [total_pages |-> 0, total_files |-> 0, total_size |-> 0,
              html_files |-> 0, css_files |-> 0, other_files |-> 0,
              failed_downloads |-> 0]

NoDownload == [url |-> NoneUrl, outcome |-> "none", success |-> FALSE]

\* the size test of download_with_progress without the limit
exceeds_limit_Never(file_size) == FALSE

\* file_size > self.config.MAX_FILE_SIZE
exceeds_limit(file_size) == file_size > MAX_FILE_SIZE

Bump(f, k) == IF k \in DOMAIN f THEN [f EXCEPT ![k] = @ + 1] ELSE f @@ (k :> 1)

ArchInit ==
    /\ base_url \in StartUrls
    /\ config \in [MAX_PAGES : 1..MaxPagesBound, RESPECT_ROBOTS : BOOLEAN,
                    CREATE_LOCAL_SERVER : {TRUE}, SAVE_TO_DRIVE : {TRUE},
                    COMPRESS_ARCHIVE : {TRUE}]
    /\ robots_rules \in IF config.RESPECT_ROBOTS THEN {SiteRobots, NoRobots}
                        ELSE {NoRobots}
    /\ visited_urls = {}
    /\ urls_to_visit = {base_url}
    /\ url_to_local = << >>
    /\ stats = ZeroStats
    /\ saved = << >>
    /\ pc = "crawl"
    /\ result = "none yet"
    /\ req_count = << >>
    /\ depth = (base_url :> 0)
    /\ caught = "none"
    /\ files = {}
    /\ last_download = NoDownload
    /\ post_step = "index"
    /\ steps = << >>

\* the while condition of the crawl loop without the page limit
LoopCondition_NoPageCap == urls_to_visit # {}

\* the while condition of the crawl loop
LoopCondition == urls_to_visit # {} /\ stats.total_pages < config.MAX_PAGES

\* self.urls_to_visit without removing the URL that is handed out
pop_Keeps(url) == urls_to_visit

\* self.urls_to_visit after pop() has returned url
pop(url) == urls_to_visit \ {url}

\* one iteration of the crawl loop: url is what set.pop() returns (any
\* element of the set), outcome is how the download ends, proc is how
\* process_html_file ends (read_fail: before update_html_links; overlay_fail:
\* in add_archive_overlay, after update_html_links has queued its URLs)
CrawlIteration(url, outcome, proc) ==
    /\ pc = "crawl"
    /\ LoopCondition
    /\ url \in urls_to_visit
    /\ outcome \in Outcomes(url)
    /\ LET popped == pop(url)
           visited == visited_urls \cup {url}
           cached == url \in DOMAIN url_to_local /\ url_to_local[url] \in files
           content_length == IF outcome = "ok" THEN BodySize(url) ELSE 0
           too_large_header == /\ ~cached /\ outcome = "ok"
                               /\ exceeds_limit(content_length)
           too_large_stream == /\ ~cached /\ outcome \in {"ok", "ok_chunked"}
                               /\ ~too_large_header
                               /\ exceeds_limit(BodySize(url))
           downloaded == /\ ~cached /\ outcome \in {"ok", "ok_chunked"}
                         /\ ~too_large_header /\ ~too_large_stream
           content_type == IF cached THEN "cached" ELSE ContentType(url)
           category == get_file_category(url, content_type)
           local_path == generate_local_path(url, category)
           success == cached \/ downloaded
           st1 == IF cached THEN [stats EXCEPT !.total_size = @ + BodySize(url)]
                  ELSE IF downloaded
                  THEN [stats EXCEPT !.total_size = @ + BodySize(url),
                                     !.total_files = @ + 1,
                                     !.css_files = IF category = "css" THEN @ + 1 ELSE @,
                                     !.other_files = IF category = "css" THEN @ ELSE @ + 1]
                  ELSE IF outcome = "fail"
                  THEN [stats EXCEPT !.failed_downloads = @ + 1]
                  ELSE stats
           locals == IF downloaded
                     THEN (url :> local_path) @@ url_to_local
                     ELSE url_to_local
           is_html == success /\ content_type = "text/html"
           soup0 == Links(url)
           soup1 == update_html_links(soup0, url, locals)
           queued1 == update_html_queued(soup0, url, visited, popped)
           to_visit1 == popped \cup queued1
           soup2 == add_archive_overlay(soup1, url)
           queued2 == extract_urls_from_html(soup2, url, visited, to_visit1, st1)
       IN
       IF url \in visited_urls
       THEN /\ urls_to_visit' = popped
            /\ UNCHANGED <<visited_urls, url_to_local, stats, saved, req_count,
                           depth, files, last_download>>
       ELSE
         /\ visited_urls' = visited
         /\ files' = IF downloaded THEN files \cup {local_path}
                     ELSE IF too_large_stream THEN files \ {local_path}
                     ELSE files
         /\ last_download' = [url |-> url, outcome |-> outcome, success |-> success]
         /\ req_count' = IF cached THEN req_count ELSE Bump(req_count, url)
         /\ url_to_local' = locals
         /\ IF ~is_html
            THEN /\ stats' = st1
                 /\ urls_to_visit' = popped
                 /\ UNCHANGED <<saved, depth>>
            ELSE CASE proc = "read_fail" ->
                        /\ stats' = [st1 EXCEPT !.total_pages = @ + 1]
                        /\ urls_to_visit' = popped
                        /\ UNCHANGED <<saved, depth>>
                   [] proc = "overlay_fail" ->
                        /\ stats' = [st1 EXCEPT !.total_pages = @ + 1]
                        /\ urls_to_visit' = to_visit1
                        /\ depth' = depth @@ [n \in queued1 |-> depth[url] + 1]
                        /\ UNCHANGED saved
                   [] OTHER ->
                        /\ stats' = [st1 EXCEPT !.total_pages = @ + 1,
                                                !.html_files = @ + 1]
                        /\ urls_to_visit' = to_visit1 \cup queued2
                        /\ depth' = depth @@ [n \in queued1 \cup queued2 |-> depth[url] + 1]
                        /\ saved' = (url :> soup2) @@ saved
    /\ UNCHANGED <<base_url, config, robots_rules, pc, result, caught,
                   post_step, steps>>
    /\ UNCHANGED <<dm_vars, ym_vars, drv_vars, tubi_vars, rb_vars, gui_vars>>

\* a download whose exception is not caught in download_with_progress
CrawlDownloadFailed_Aborts ==
    /\ pc = "crawl"
    /\ LoopCondition
    /\ \E url \in urls_to_visit :
          /\ urls_to_visit' = urls_to_visit \ {url}
          /\ visited_urls' = visited_urls \cup {url}
          /\ req_count' = Bump(req_count, url)
    /\ stats' = [stats EXCEPT !.failed_downloads = @ + 1]
    /\ pc' = "done"
    /\ result' = "None"
    /\ caught' = "Exception"
    /\ UNCHANGED <<base_url, config, robots_rules, url_to_local, saved, depth,
                   files, last_download, post_step, steps>>
    /\ UNCHANGED <<dm_vars, ym_vars, drv_vars, tubi_vars, rb_vars, gui_vars>>

CrawlDownloadFailed ==
    \E url \in urls_to_visit : CrawlIteration(url, "fail", "ok")

\* a response of at most MAX_FILE_SIZE bytes
WithinLimit(url) == BodySize(url) <= MAX_FILE_SIZE

CrawlResource ==
    \E url \in urls_to_visit, outcome \in {"ok", "ok_chunked"} :
        /\ ContentType(url) # "text/html"
        /\ WithinLimit(url)
        /\ CrawlIteration(url, outcome, "ok")

CrawlPage ==
    \E url \in urls_to_visit, outcome \in {"ok", "ok_chunked"} :
        /\ ContentType(url) = "text/html"
        /\ WithinLimit(url)
        /\ CrawlIteration(url, outcome, "ok")

CrawlPageProcessingFailed ==
    \E url \in urls_to_visit, outcome \in {"ok", "ok_chunked"},
       proc \in {"read_fail", "overlay_fail"} :
        /\ ContentType(url) = "text/html"
        /\ WithinLimit(url)
        /\ CrawlIteration(url, outcome, proc)

\* the response announces or delivers more than MAX_FILE_SIZE bytes
CrawlFileTooLarge ==
    \E url \in urls_to_visit, outcome \in {"ok", "ok_chunked"} :
        /\ ~WithinLimit(url)
        /\ CrawlIteration(url, outcome, "ok")

CrawlLoopEnds ==
    /\ pc = "crawl"
    /\ ~LoopCondition
    /\ pc' = "post"
    /\ UNCHANGED <<base_url, config, robots_rules, visited_urls, urls_to_visit,
                   url_to_local, stats, saved, result, req_count, depth, caught,
                   files, last_download, post_step, steps>>
    /\ UNCHANGED <<dm_vars, ym_vars, drv_vars, tubi_vars, rb_vars, gui_vars>>

\* the post-crawl steps in the order of the statements of archive_website
step_after_ZipFirst(step) ==
    CASE step = "index"  -> "zip"
      [] step = "zip"    -> "server"
      [] step = "server" -> "drive"
      [] OTHER           -> "report"

step_after(step) ==
    CASE step = "index"  -> "server"
      [] step = "server" -> "drive"
      [] step = "drive"  -> "zip"
      [] OTHER           -> "report"

\* whether the if of a step lets it run
step_enabled(step) ==
    CASE step = "server" -> config.CREATE_LOCAL_SERVER
      [] step = "drive"  -> config.SAVE_TO_DRIVE /\ drv_path
      [] step = "zip"    -> config.COMPRESS_ARCHIVE
      [] OTHER           -> TRUE

\* what a step writes into the archive directory
step_file(step) ==
    CASE step = "index"  -> {<<"index.html">>}
      [] step = "server" -> {<<"serve.py">>}
      [] OTHER           -> {}

\* one of create_archive_index, create_local_server, save_to_drive,
\* create_zip_archive: it runs if its condition holds and archive_website
\* goes on to the next statement
PostCrawlStep(step) ==
    /\ pc = "post"
    /\ post_step = step
    /\ IF step_enabled(step)
       THEN /\ steps' = Append(steps, step)
            /\ files' = files \cup step_file(step)
       ELSE UNCHANGED <<steps, files>>
    /\ post_step' = step_after(step)
    /\ UNCHANGED <<base_url, config, robots_rules, visited_urls, urls_to_visit,
                   url_to_local, stats, saved, pc, result, req_count, depth,
                   caught, last_download>>
    /\ UNCHANGED <<dm_vars, ym_vars, drv_vars, tubi_vars, rb_vars, gui_vars>>

PostCreateIndex == PostCrawlStep("index")

PostCreateLocalServer == PostCrawlStep("server")

PostSaveToDrive == PostCrawlStep("drive")

PostCreateZip == PostCrawlStep("zip")

\* generate_archive_report and return report
PostCrawl ==
    /\ pc = "post"
    /\ post_step = "report"
    /\ steps' = Append(steps, "report")
    /\ pc' = "done"
    /\ result' = "report"
    /\ UNCHANGED <<base_url, config, robots_rules, visited_urls, urls_to_visit,
                   url_to_local, stats, saved, req_count, depth, caught,
                   files, last_download, post_step>>
    /\ UNCHANGED <<dm_vars, ym_vars, drv_vars, tubi_vars, rb_vars, gui_vars>>

\* create_archive_index, create_local_server or generate_archive_report
\* raises (save_to_drive and create_zip_archive catch their exceptions):
\* the except Exception clause of archive_website returns None
PostCrawlRaises ==
    /\ pc = "post"
    /\ post_step \in {"index", "server", "report"}
    /\ step_enabled(post_step)
    /\ pc' = "done"
    /\ result' = "None"
    /\ caught' = "Exception"
    /\ UNCHANGED <<base_url, config, robots_rules, visited_urls, urls_to_visit,
                   url_to_local, stats, saved, req_count, depth, files,
                   last_download, post_step, steps>>
    /\ UNCHANGED <<dm_vars, ym_vars, drv_vars, tubi_vars, rb_vars, gui_vars>>

\* Ctrl-C (the notebook's interrupt) while the try block of archive_website
\* runs: control passes to the except KeyboardInterrupt clause
KeyboardInterrupt ==
    /\ pc \in {"crawl", "post"}
    /\ pc' = "interrupted"
    /\ caught' = "KeyboardInterrupt"
    /\ UNCHANGED <<base_url, config, robots_rules, visited_urls, urls_to_visit,
                   url_to_local, stats, saved, result, req_count, depth, files,
                   last_download, post_step, steps>>
    /\ UNCHANGED <<dm_vars, ym_vars, drv_vars, tubi_vars, rb_vars, gui_vars>>

\* except KeyboardInterrupt: self.create_archive_index()
InterruptCreateIndex ==
    /\ pc = "interrupted"
    /\ pc' = "interrupted_report"
    /\ steps' = Append(steps, "interrupt_index")
    /\ files' = files \cup step_file("index")
    /\ UNCHANGED <<base_url, config, robots_rules, visited_urls, urls_to_visit,
                   url_to_local, stats, saved, result, req_count, depth, caught,
                   last_download, post_step>>
    /\ UNCHANGED <<dm_vars, ym_vars, drv_vars, tubi_vars, rb_vars, gui_vars>>

\* except KeyboardInterrupt: return self.generate_archive_report()
InterruptReturnsReport ==
    /\ pc = "interrupted_report"
    /\ pc' = "done"
    /\ result' = "report"
    /\ steps' = Append(steps, "interrupt_report")
    /\ UNCHANGED <<base_url, config, robots_rules, visited_urls, urls_to_visit,
                   url_to_local, stats, saved, req_count, depth, caught, files,
                   last_download, post_step>>
    /\ UNCHANGED <<dm_vars, ym_vars, drv_vars, tubi_vars, rb_vars, gui_vars>>

\* create_archive_index or generate_archive_report raises inside the except
\* KeyboardInterrupt clause: no clause of the same try statement catches it,
\* the exception leaves archive_website
InterruptHandlerRaises ==
    /\ pc \in {"interrupted", "interrupted_report"}
    /\ pc' = "done"
    /\ result' = "raised"
    /\ UNCHANGED <<base_url, config, robots_rules, visited_urls, urls_to_visit,
                   url_to_local, stats, saved, req_count, depth, caught, files,
                   last_download, post_step, steps>>
    /\ UNCHANGED <<dm_vars, ym_vars, drv_vars, tubi_vars, rb_vars, gui_vars>>

-----------------------------------------------------------------------------
(* DailymotionDownloaderGUI.  Click handlers run one at a time on the main  *)
(* thread; a button is clicked only while it is enabled.  download_video    *)
(* runs in its own thread and interleaves with the handlers statement by    *)
(* statement.                                                               *)

DmInit ==
    /\ dm_url = ""
    /\ dm_info = "None"
    /\ dm_disabled = [fetch |-> FALSE, download |-> TRUE, cancel |-> TRUE,
                      quality |-> TRUE]
    /\ dm_main = "idle"
    /\ dm_threads = << >>
    /\ dm_drive = << >>
    /\ dm_dest = << >>

\* the user types a URL into url_input
DmEditUrl ==
    /\ dm_url' \in {"", "url"} \ {dm_url}
    /\ UNCHANGED <<dm_info, dm_disabled, dm_main, dm_threads>>
    /\ UNCHANGED <<arch_vars, ym_vars, drv_vars, tubi_vars, rb_vars, gui_vars>>
    /\ UNCHANGED <<dm_drive, dm_dest>>

\* clear_all
DmClear ==
    /\ dm_main = "idle"
    /\ dm_url' = ""
    /\ dm_disabled' = [dm_disabled EXCEPT !.quality = TRUE, !.download = TRUE]
    /\ UNCHANGED <<dm_info, dm_main, dm_threads>>
    /\ UNCHANGED <<arch_vars, ym_vars, drv_vars, tubi_vars, rb_vars, gui_vars>>
    /\ UNCHANGED <<dm_drive, dm_dest>>

\* fetch_video_info up to the call of extract_video_info
DmFetchClick ==
    /\ dm_main = "idle"
    /\ ~dm_disabled.fetch
    /\ IF dm_url = ""
       THEN UNCHANGED <<dm_disabled, dm_main>>
       ELSE /\ dm_disabled' = [dm_disabled EXCEPT !.fetch = TRUE, !.download = TRUE]
            /\ dm_main' = "fetching"
    /\ UNCHANGED <<dm_url, dm_info, dm_threads>>
    /\ UNCHANGED <<arch_vars, ym_vars, drv_vars, tubi_vars, rb_vars, gui_vars>>
    /\ UNCHANGED <<dm_drive, dm_dest>>

\* fetch_video_info from the return of extract_video_info to its end
DmFetchReturns ==
    /\ dm_main = "fetching"
    /\ \E outcome \in {"no_info", "info", "raises"} :
          IF outcome = "info"
          THEN /\ dm_info' = "info"
               /\ dm_disabled' = [dm_disabled EXCEPT !.quality = FALSE,
                                                     !.download = FALSE,
                                                     !.fetch = FALSE]
          ELSE /\ dm_disabled' = [dm_disabled EXCEPT !.fetch = FALSE]
               /\ UNCHANGED dm_info
    /\ dm_main' = "idle"
    /\ UNCHANGED <<dm_url, dm_threads>>
    /\ UNCHANGED <<arch_vars, ym_vars, drv_vars, tubi_vars, rb_vars, gui_vars>>
    /\ UNCHANGED <<dm_drive, dm_dest>>

\* start_download
DmDownloadClick ==
    /\ dm_main = "idle"
    /\ ~dm_disabled.download
    /\ Len(dm_threads) < MaxThreads
    /\ IF dm_info = "None"
       THEN UNCHANGED <<dm_disabled, dm_threads>>
       ELSE /\ dm_disabled' = [dm_disabled EXCEPT !.download = TRUE,
                                                  !.fetch = TRUE,
                                                  !.cancel = FALSE]
            /\ dm_threads' = Append(dm_threads, "try")
    /\ UNCHANGED <<dm_url, dm_info, dm_main>>
    /\ UNCHANGED <<arch_vars, ym_vars, drv_vars, tubi_vars, rb_vars, gui_vars>>
    /\ UNCHANGED <<dm_drive, dm_dest>>

\* Drive file names: 0 is the name of the downloaded file, n >= 1 is
\* "base (n)ext".  The while loop of save_to_drive: the first name, counting
\* from counter, that does not exist
RECURSIVE free_destination(_, _)
free_destination(counter, existing) ==
    IF counter \notin existing THEN counter
    ELSE free_destination(counter + 1, existing)

\* download_video: the download ends; with a file and the save_to_drive
\* checkbox set the thread goes on to GoogleDriveManager.save_to_drive,
\* otherwise (failure, exception, local download) the try block ends
DmWorkerDownloads ==
    /\ UNCHANGED <<arch_vars, ym_vars, drv_vars, tubi_vars, rb_vars, gui_vars>>
    /\ UNCHANGED <<dm_drive, dm_dest>>
    /\ \E t \in DOMAIN dm_threads, to_drive \in BOOLEAN :
           /\ dm_threads[t] = "try"
           /\ dm_threads' = [dm_threads EXCEPT ![t] =
                                IF to_drive THEN "save_to_drive"
                                ELSE "finally_download"]
           /\ UNCHANGED <<dm_url, dm_info, dm_disabled, dm_main>>

\* save_to_drive up to the copy: the destination is the first free name
DmWorkerChoosesDestination ==
    /\ UNCHANGED <<arch_vars, ym_vars, drv_vars, tubi_vars, rb_vars, gui_vars>>
    /\ \E t \in DOMAIN dm_threads :
           /\ dm_threads[t] = "save_to_drive"
           /\ dm_dest' = (t :> free_destination(0, DOMAIN dm_drive)) @@ dm_dest
           /\ dm_threads' = [dm_threads EXCEPT ![t] = "copy"]
           /\ UNCHANGED <<dm_url, dm_info, dm_disabled, dm_main, dm_drive>>

\* save_to_drive: shutil.copy2(file_path, destination), or its exception
DmWorkerCopies ==
    /\ UNCHANGED <<arch_vars, ym_vars, drv_vars, tubi_vars, rb_vars, gui_vars>>
    /\ \E t \in DOMAIN dm_threads, copied \in BOOLEAN :
           /\ dm_threads[t] = "copy"
           /\ dm_drive' = IF copied THEN (dm_dest[t] :> t) @@ dm_drive
                          ELSE dm_drive
           /\ dm_threads' = [dm_threads EXCEPT ![t] = "finally_download"]
           /\ UNCHANGED <<dm_url, dm_info, dm_disabled, dm_main, dm_dest>>

\* download_video, finally: self.download_button.disabled = False
DmWorkerEnablesDownload ==
    /\ UNCHANGED <<arch_vars, ym_vars, drv_vars, tubi_vars, rb_vars, gui_vars>>
    /\ UNCHANGED <<dm_drive, dm_dest>>
    /\ \E t \in DOMAIN dm_threads :
           /\ dm_threads[t] = "finally_download"
           /\ dm_disabled' = [dm_disabled EXCEPT !.download = FALSE]
           /\ dm_threads' = [dm_threads EXCEPT ![t] = "finally_fetch"]
           /\ UNCHANGED <<dm_url, dm_info, dm_main>>

\* download_video, finally: self.fetch_button.disabled = False
DmWorkerEnablesFetch ==
    /\ UNCHANGED <<arch_vars, ym_vars, drv_vars, tubi_vars, rb_vars, gui_vars>>
    /\ UNCHANGED <<dm_drive, dm_dest>>
    /\ \E t \in DOMAIN dm_threads :
           /\ dm_threads[t] = "finally_fetch"
           /\ dm_disabled' = [dm_disabled EXCEPT !.fetch = FALSE]
           /\ dm_threads' = [dm_threads EXCEPT ![t] = "finally_cancel"]
           /\ UNCHANGED <<dm_url, dm_info, dm_main>>

\* download_video, finally: self.cancel_button.disabled = True; the thread ends
DmWorkerDisablesCancel ==
    /\ UNCHANGED <<arch_vars, ym_vars, drv_vars, tubi_vars, rb_vars, gui_vars>>
    /\ UNCHANGED <<dm_drive, dm_dest>>
    /\ \E t \in DOMAIN dm_threads :
           /\ dm_threads[t] = "finally_cancel"
           /\ dm_disabled' = [dm_disabled EXCEPT !.cancel = TRUE]
           /\ dm_threads' = [dm_threads EXCEPT ![t] = "ended"]
           /\ UNCHANGED <<dm_url, dm_info, dm_main>>

DmActive == {t \in DOMAIN dm_threads : dm_threads[t] # "ended"}

-----------------------------------------------------------------------------
(* MusicDownloaderGUI *)

YmInit ==
    /\ ym_url = ""
    /\ ym_status = "Ready"
    /\ ym_threads = << >>

\* the user types into url_input
YmEditUrl ==
    /\ ym_url' \in {"", "urls"} \ {ym_url}
    /\ UNCHANGED <<ym_status, ym_threads>>
    /\ UNCHANGED <<arch_vars, dm_vars, drv_vars, tubi_vars, rb_vars, gui_vars>>

\* on_clear_clicked
YmClear ==
    /\ ym_url' = ""
    /\ ym_status' = "Cleared"
    /\ UNCHANGED ym_threads
    /\ UNCHANGED <<arch_vars, dm_vars, drv_vars, tubi_vars, rb_vars, gui_vars>>

\* on_download_clicked
YmDownloadClick ==
    /\ Len(ym_threads) < MaxThreads
    /\ IF ym_url = ""
       THEN /\ ym_status' = "Please enter a URL"
            /\ UNCHANGED ym_threads
       ELSE /\ ym_threads' = Append(ym_threads, "starting")
            /\ UNCHANGED ym_status
    /\ UNCHANGED ym_url
    /\ UNCHANGED <<arch_vars, dm_vars, drv_vars, tubi_vars, rb_vars, gui_vars>>

\* start_download: update_status("Starting download...")
YmWorkerStarts ==
    /\ UNCHANGED <<arch_vars, dm_vars, drv_vars, tubi_vars, rb_vars, gui_vars>>
    /\ \E t \in DOMAIN ym_threads :
           /\ ym_threads[t] = "starting"
           /\ ym_status' = "Starting download..."
           /\ ym_threads' = [ym_threads EXCEPT ![t] = "downloading"]
           /\ UNCHANGED ym_url

\* start_download: mount, download, then "Download complete!" or the
\* except clause's "Error"; the thread ends
YmWorkerFinishes ==
    /\ UNCHANGED <<arch_vars, dm_vars, drv_vars, tubi_vars, rb_vars, gui_vars>>
    /\ \E t \in DOMAIN ym_threads :
           /\ ym_threads[t] = "downloading"
           /\ ym_status' \in {"Download complete!", "Error"}
           /\ ym_threads' = [ym_threads EXCEPT ![t] = "ended"]
           /\ UNCHANGED ym_url

YmActive == {t \in DOMAIN ym_threads : ym_threads[t] # "ended"}

-----------------------------------------------------------------------------
(* GoogleDriveManager and AdvancedWebArchiver.save_to_drive.  Each call is  *)
(* one action; its inputs are how drive.mount, the copy and shutil.rmtree   *)
(* end: copied is the set of files written to Drive before the copy ended   *)
(* (all of them when it succeeds), removed the set of files rmtree deleted  *)
(* before it ended.                                                         *)

ArchiveFiles == 1..MaxFiles

NoCall == [op |-> "none", delete |-> FALSE, failed |-> FALSE, ret |-> FALSE,
           before |-> {}]

DrvIdle ==
    /\ drv_mounted = FALSE
    /\ drv_path = FALSE
    /\ drv_local = {}
    /\ drv_remote = {}
    /\ drv_last = NoCall

DrvInit ==
    /\ drv_mounted = FALSE
    /\ drv_path \in BOOLEAN
    /\ drv_local = {}
    /\ drv_remote = {}
    /\ drv_last = NoCall

\* the archiver writes a file into its output directory
DrvArchiveWrites ==
    /\ \E f \in ArchiveFiles \ drv_local : drv_local' = drv_local \cup {f}
    /\ drv_last' = NoCall
    /\ UNCHANGED <<drv_mounted, drv_path, drv_remote>>
    /\ UNCHANGED <<arch_vars, dm_vars, ym_vars, tubi_vars, rb_vars, gui_vars>>

\* copy_to_drive: the value it returns
copy_to_drive(mount_ok, copy_ok) == (drv_mounted \/ mount_ok) /\ copy_ok

\* whether the caller goes on to shutil.rmtree, without the test of the copy
deletes_local_Always(success, delete) == delete

\* whether the caller goes on to shutil.rmtree
deletes_local(success, delete) == success /\ delete

\* the inputs of a call that are consistent with each other
DriveCall(mount_ok, copy_ok, copied, rm_ok, removed) ==
    /\ copied \subseteq drv_local
    /\ removed \subseteq drv_local
    /\ ~(drv_mounted \/ mount_ok) => copied = {}
    /\ copy_ok => copied = drv_local
    /\ rm_ok => removed = drv_local

\* GoogleDriveManager.sync_to_drive(local_path, drive_path, delete_original)
SyncToDrive ==
    \E delete_original, mount_ok, copy_ok, rm_ok \in BOOLEAN,
       copied, removed \in SUBSET drv_local :
        /\ DriveCall(mount_ok, copy_ok, copied, rm_ok, removed)
        /\ LET success == copy_to_drive(mount_ok, copy_ok) IN
           /\ drv_mounted' = (drv_mounted \/ mount_ok)
           /\ drv_remote' = drv_remote \cup copied
           /\ drv_local' = IF deletes_local(success, delete_original)
                           THEN drv_local \ removed ELSE drv_local
           /\ drv_last' = [op |-> "sync_to_drive", delete |-> delete_original,
                           failed |-> ~success, ret |-> success,
                           before |-> drv_local]
        /\ UNCHANGED drv_path
        /\ UNCHANGED <<arch_vars, dm_vars, ym_vars, tubi_vars, rb_vars, gui_vars>>

\* AdvancedWebArchiver.save_to_drive(delete_local): without drive_path it
\* returns False at once; an exception of shutil.rmtree is caught by its
\* except clause, which returns False
SaveToDrive ==
    \E delete_local, mount_ok, copy_ok, rm_ok \in BOOLEAN,
       copied, removed \in SUBSET drv_local :
        /\ DriveCall(mount_ok, copy_ok, copied, rm_ok, removed)
        /\ IF ~drv_path
           THEN /\ drv_last' = [op |-> "save_to_drive", delete |-> delete_local,
                                failed |-> FALSE, ret |-> FALSE,
                                before |-> drv_local]
                /\ UNCHANGED <<drv_mounted, drv_remote, drv_local>>
           ELSE LET success == copy_to_drive(mount_ok, copy_ok)
                    deletes == deletes_local(success, delete_local) IN
                /\ drv_mounted' = (drv_mounted \/ mount_ok)
                /\ drv_remote' = drv_remote \cup copied
                /\ drv_local' = IF deletes THEN drv_local \ removed ELSE drv_local
                /\ drv_last' = [op |-> "save_to_drive", delete |-> delete_local,
                                failed |-> ~success,
                                ret |-> success /\ (deletes => rm_ok),
                                before |-> drv_local]
        /\ UNCHANGED drv_path
        /\ UNCHANGED <<arch_vars, dm_vars, ym_vars, tubi_vars, rb_vars, gui_vars>>

-----------------------------------------------------------------------------
(* load_robots_txt, parse_robots_txt and is_allowed_by_robots on the        *)
(* robots.txt files a site can serve                                        *)

RobotsLine(field, value) == [field |-> field, value |-> value]

\* lines of a robots.txt: a comment, user-agent lines, Disallow and Allow
\* lines with an empty path, /p and /p/x
RobotsLines ==
    {RobotsLine("#", << >>)}
    \cup {RobotsLine("user-agent", a) : a \in {"*", USER_AGENT, "otherbot"}}
    \cup {RobotsLine(f, path) : f \in {"disallow", "allow"},
                                path \in {<< >>, <<"/", "p">>, <<"/", "p", "/", "x">>}}

RobotsFiles == UNION {[1..n -> RobotsLines] : n \in 0..MaxRobotsLines}

CheckedUrls == {Root, PageA, SiteUrl(<<"/", "p">>), Priv}

NoCheck == [url |-> NoneUrl, allowed |-> TRUE]

RbIdle ==
    /\ rb_content = << >>
    /\ rb_last = NoCheck

RbInit ==
    /\ rb_content \in RobotsFiles
    /\ rb_last = NoCheck

\* parse_robots_txt: the effect of one line on self.robots_rules
parse_line(line, current_agent, rules) ==
    IF line.field = "user-agent"
    THEN IF line.value \in DOMAIN rules THEN rules
         ELSE rules @@ (line.value :> [allow |-> << >>, disallow |-> << >>])
    ELSE IF line.field = "disallow" /\ current_agent # "None"
    THEN [rules EXCEPT ![current_agent].disallow = Append(@, line.value)]
    ELSE IF line.field = "allow" /\ current_agent # "None"
    THEN [rules EXCEPT ![current_agent].allow = Append(@, line.value)]
    ELSE rules

\* parse_robots_txt: the loop over the lines
RECURSIVE parse_robots_txt(_, _, _)
parse_robots_txt(lines, current_agent, rules) ==
    IF lines = << >> THEN rules
    ELSE parse_robots_txt(Tail(lines),
                          IF Head(lines).field = "user-agent"
                          THEN Head(lines).value ELSE current_agent,
                          parse_line(Head(lines), current_agent, rules))

\* load_robots_txt with a 200 response
RbLoadRobots ==
    /\ rb_content # << >>
    /\ robots_rules' = parse_robots_txt(rb_content, "None", robots_rules)
    /\ rb_content' = << >>
    /\ UNCHANGED rb_last
    /\ UNCHANGED <<base_url, config, visited_urls, urls_to_visit, url_to_local,
                   stats, saved, pc, result, req_count, depth, caught, files,
                   last_download, post_step, steps>>
    /\ UNCHANGED <<dm_vars, ym_vars, drv_vars, tubi_vars, gui_vars>>

\* a call of is_allowed_by_robots, after __init__ has loaded robots.txt
RbCheck ==
    /\ rb_content = << >>
    /\ \E url \in CheckedUrls :
          rb_last' = [url |-> url, allowed |-> is_allowed_by_robots(url)]
    /\ UNCHANGED rb_content
    /\ UNCHANGED <<arch_vars, dm_vars, ym_vars, drv_vars, tubi_vars, gui_vars>>

-----------------------------------------------------------------------------
(* Tubi downloader GUI: on_batch_click.  The handler runs on the main       *)
(* thread; each call of download_tubi_clean is one step of it.              *)

\* lines of an uploaded file: empty, blanks only, a URL followed by a
\* blank (or carriage return), a URL
FileLines == {"", " ", "a ", "b"}

\* str.strip
strip(line) == CASE line = " " -> "" [] line = "a " -> "a" [] OTHER -> line

\* [line.strip() for line in content.split('\n') if line.strip()]
RECURSIVE stripped_lines(_)
stripped_lines(lines) ==
    IF lines = << >> THEN << >>
    ELSE IF strip(Head(lines)) # "" THEN <<strip(Head(lines))>> \o stripped_lines(Tail(lines))
    ELSE stripped_lines(Tail(lines))

max_urls == 5

\* the loop is entered with every URL of the file
limit_urls_NoLimit(urls) == urls

\* if len(urls) > max_urls: urls = urls[:max_urls]
limit_urls(urls) == IF Len(urls) > max_urls THEN SubSeq(urls, 1, max_urls) ELSE urls

\* the files a user can have uploaded into batch_upload; << >> is no upload
UploadedFiles == UNION {[1..n -> FileLines] : n \in 0..MaxLines}

TubiInit ==
    /\ tubi_content \in UploadedFiles
    /\ tubi_urls = << >>
    /\ tubi_i = 0
    /\ tubi_success = 0
    /\ tubi_pc = "idle"
    /\ tubi_calls = << >>
    /\ tubi_results = << >>

TubiIdle ==
    /\ tubi_content = << >>
    /\ tubi_urls = << >>
    /\ tubi_i = 0
    /\ tubi_success = 0
    /\ tubi_pc = "idle"
    /\ tubi_calls = << >>
    /\ tubi_results = << >>

\* on_batch_click up to the for loop
TubiBatchClick ==
    /\ tubi_pc # "loop"
    /\ tubi_calls' = << >>
    /\ tubi_results' = << >>
    /\ LET urls == stripped_lines(tubi_content) IN
       IF tubi_content = << >> \/ urls = << >>
       THEN /\ tubi_pc' = "idle"
            /\ UNCHANGED <<tubi_urls, tubi_i, tubi_success>>
       ELSE /\ tubi_urls' = limit_urls(urls)
            /\ tubi_success' = 0
            /\ tubi_i' = 1
            /\ tubi_pc' = "loop"
    /\ UNCHANGED tubi_content
    /\ UNCHANGED <<arch_vars, dm_vars, ym_vars, drv_vars, rb_vars, gui_vars>>

\* one iteration of the for loop: download_tubi_clean returns the file name
\* or, from its except clause, None
TubiDownload ==
    /\ tubi_pc = "loop"
    /\ tubi_i <= Len(tubi_urls)
    /\ \E returned \in BOOLEAN :
          /\ tubi_calls' = Append(tubi_calls, tubi_urls[tubi_i])
          /\ tubi_results' = Append(tubi_results, returned)
          /\ tubi_success' = IF returned THEN tubi_success + 1 ELSE tubi_success
    /\ tubi_i' = tubi_i + 1
    /\ UNCHANGED <<tubi_content, tubi_urls, tubi_pc>>
    /\ UNCHANGED <<arch_vars, dm_vars, ym_vars, drv_vars, rb_vars, gui_vars>>

\* Path(output_dir).mkdir of download_tubi_clean raises, before its try
\* block: the exception leaves on_batch_click
TubiOutputDirRaises ==
    /\ tubi_pc = "loop"
    /\ tubi_i <= Len(tubi_urls)
    /\ tubi_pc' = "raised"
    /\ tubi_calls' = Append(tubi_calls, tubi_urls[tubi_i])
    /\ UNCHANGED <<tubi_content, tubi_urls, tubi_i, tubi_success, tubi_results>>
    /\ UNCHANGED <<arch_vars, dm_vars, ym_vars, drv_vars, rb_vars, gui_vars>>

\* the for loop is exhausted: the summary is printed
TubiBatchEnds ==
    /\ tubi_pc = "loop"
    /\ tubi_i > Len(tubi_urls)
    /\ tubi_pc' = "done"
    /\ UNCHANGED <<tubi_content, tubi_urls, tubi_i, tubi_success, tubi_calls,
                   tubi_results>>
    /\ UNCHANGED <<arch_vars, dm_vars, ym_vars, drv_vars, rb_vars, gui_vars>>

-----------------------------------------------------------------------------
(* create_archiver_gui: on_start_click runs on the main thread and calls    *)
(* archive_website synchronously                                            *)

GuiInit ==
    /\ gui_url = ""
    /\ gui_disabled = [drive |-> TRUE, download |-> TRUE, view |-> TRUE]
    /\ gui_pc = "idle"
    /\ gui_status = ""
    /\ gui_runs = << >>

\* the user types into url_input
GuiEditUrl ==
    /\ gui_pc = "idle"
    /\ gui_url' \in {"", "site"} \ {gui_url}
    /\ UNCHANGED <<gui_disabled, gui_pc, gui_status, gui_runs>>
    /\ UNCHANGED <<arch_vars, dm_vars, ym_vars, drv_vars, tubi_vars, rb_vars>>

\* on_start_click up to the call of archive_website
GuiStartClick ==
    /\ gui_pc = "idle"
    /\ Len(gui_runs) < MaxRuns
    /\ IF gui_url = ""
       THEN /\ gui_status' = "Please enter a URL"
            /\ UNCHANGED gui_pc
       ELSE /\ gui_status' = "Starting archive process..."
            /\ gui_pc' = "archiving"
    /\ UNCHANGED <<gui_url, gui_disabled, gui_runs>>
    /\ UNCHANGED <<arch_vars, dm_vars, ym_vars, drv_vars, tubi_vars, rb_vars>>

\* 'if report' with a None that counts as a report
report_truthy_AlsoNone(outcome) == outcome \in {"report", "None"}

\* 'if report': the report is a non-empty dict, None is false
report_truthy(outcome) == outcome = "report"

\* on_start_click from the end of archive_website: the call returned the
\* report or None, or an exception left it
GuiArchiveEnds ==
    /\ gui_pc = "archiving"
    /\ \E outcome \in {"report", "None", "raised"} :
          /\ gui_runs' = Append(gui_runs, outcome)
          /\ IF outcome = "raised"
             THEN /\ gui_status' = "Error"
                  /\ UNCHANGED gui_disabled
             ELSE IF report_truthy(outcome)
             THEN /\ gui_status' = "Archive complete!"
                  /\ gui_disabled' = [drive |-> FALSE, download |-> FALSE,
                                      view |-> FALSE]
             ELSE /\ gui_status' = "Archive failed"
                  /\ UNCHANGED gui_disabled
    /\ gui_pc' = "idle"
    /\ UNCHANGED gui_url
    /\ UNCHANGED <<arch_vars, dm_vars, ym_vars, drv_vars, tubi_vars, rb_vars>>

-----------------------------------------------------------------------------
(* Specifications *)

Init == ArchInit /\ DmInit /\ YmInit /\ DrvIdle /\ TubiIdle /\ RbIdle /\ GuiInit

Next ==
    \/ CrawlDownloadFailed
    \/ CrawlResource
    \/ CrawlPage
    \/ CrawlPageProcessingFailed
    \/ CrawlFileTooLarge
    \/ CrawlLoopEnds
    \/ PostCreateIndex
    \/ PostCreateLocalServer
    \/ PostSaveToDrive
    \/ PostCreateZip
    \/ PostCrawl
    \/ PostCrawlRaises

Spec == Init /\ [][Next]_vars

ArchIdle ==
    /\ base_url = Root
    /\ config = [MAX_PAGES |-> 1, RESPECT_ROBOTS |-> TRUE,
                 CREATE_LOCAL_SERVER |-> TRUE, SAVE_TO_DRIVE |-> TRUE,
                 COMPRESS_ARCHIVE |-> TRUE]
    /\ robots_rules = NoRobots
    /\ visited_urls = {}
    /\ urls_to_visit = {base_url}
    /\ url_to_local = << >>
    /\ stats = ZeroStats
    /\ saved = << >>
    /\ pc = "crawl"
    /\ result = "none yet"
    /\ req_count = << >>
    /\ depth = (base_url :> 0)
    /\ caught = "none"
    /\ files = {}
    /\ last_download = NoDownload
    /\ post_step = "index"
    /\ steps = << >>

\* archive_website with every setting of the post-crawl switches and with
\* the notebook's interrupt
ArchInitSwitches ==
    /\ base_url = PageB
    /\ config \in [MAX_PAGES : {2}, RESPECT_ROBOTS : {FALSE},
                    CREATE_LOCAL_SERVER : BOOLEAN, SAVE_TO_DRIVE : BOOLEAN,
                    COMPRESS_ARCHIVE : BOOLEAN]
    /\ robots_rules = NoRobots
    /\ visited_urls = {}
    /\ urls_to_visit = {base_url}
    /\ url_to_local = << >>
    /\ stats = ZeroStats
    /\ saved = << >>
    /\ pc = "crawl"
    /\ result = "none yet"
    /\ req_count = << >>
    /\ depth = (base_url :> 0)
    /\ caught = "none"
    /\ files = {}
    /\ last_download = NoDownload
    /\ post_step = "index"
    /\ steps = << >>

InitArchive == ArchInitSwitches /\ DmInit /\ YmInit /\ DrvInit /\ TubiIdle /\ RbIdle /\ GuiInit

NextArchive ==
    \/ CrawlDownloadFailed
    \/ CrawlResource
    \/ CrawlPage
    \/ CrawlPageProcessingFailed
    \/ CrawlFileTooLarge
    \/ CrawlLoopEnds
    \/ PostCreateIndex
    \/ PostCreateLocalServer
    \/ PostSaveToDrive
    \/ PostCreateZip
    \/ PostCrawl
    \/ PostCrawlRaises
    \/ KeyboardInterrupt
    \/ InterruptCreateIndex
    \/ InterruptReturnsReport
    \/ InterruptHandlerRaises

SpecArchive == InitArchive /\ [][NextArchive]_vars

\* archive_website runs in one thread and none of its calls blocks for ever
\* (session.get has a timeout and a bounded number of retries, the delay is
\* time.sleep(0.1)): a step that can be taken is taken
SpecCrawlFair == Init /\ [][Next]_vars /\ WF_vars(Next)

InitDailymotion == ArchIdle /\ DmInit /\ YmInit /\ DrvIdle /\ TubiIdle /\ RbIdle /\ GuiInit

NextDailymotion ==
    \/ DmEditUrl
    \/ DmClear
    \/ DmFetchClick
    \/ DmFetchReturns
    \/ DmDownloadClick
    \/ DmWorkerDownloads
    \/ DmWorkerChoosesDestination
    \/ DmWorkerCopies
    \/ DmWorkerEnablesDownload
    \/ DmWorkerEnablesFetch
    \/ DmWorkerDisablesCancel

SpecDailymotion == InitDailymotion /\ [][NextDailymotion]_vars

InitMusic == ArchIdle /\ DmInit /\ YmInit /\ DrvIdle /\ TubiIdle /\ RbIdle /\ GuiInit

NextMusic ==
    \/ YmEditUrl
    \/ YmClear
    \/ YmDownloadClick
    \/ YmWorkerStarts
    \/ YmWorkerFinishes

SpecMusic == InitMusic /\ [][NextMusic]_vars

InitDrive == ArchIdle /\ DmInit /\ YmInit /\ DrvInit /\ TubiIdle /\ RbIdle /\ GuiInit

NextDrive ==
    \/ DrvArchiveWrites
    \/ SyncToDrive
    \/ SaveToDrive

SpecDrive == InitDrive /\ [][NextDrive]_vars

InitTubi == ArchIdle /\ DmInit /\ YmInit /\ DrvIdle /\ TubiInit /\ RbIdle /\ GuiInit

NextTubi ==
    \/ TubiBatchClick
    \/ TubiDownload
    \/ TubiOutputDirRaises
    \/ TubiBatchEnds

SpecTubi == InitTubi /\ [][NextTubi]_vars

InitRobots == ArchIdle /\ DmInit /\ YmInit /\ DrvIdle /\ TubiIdle /\ RbInit /\ GuiInit

NextRobots ==
    \/ RbLoadRobots
    \/ RbCheck

SpecRobots == InitRobots /\ [][NextRobots]_vars

InitGui ==
    ArchIdle /\ DmInit /\ YmInit /\ DrvIdle /\ TubiIdle /\ RbIdle /\ GuiInit

NextGui ==
    \/ GuiEditUrl
    \/ GuiStartClick
    \/ GuiArchiveEnds

SpecGui == InitGui /\ [][NextGui]_vars


-----------------------------------------------------------------------------
(* Claims about archive_website *)

\* C1: stats['total_pages'] never exceeds config.MAX_PAGES, and once
\* total_pages has reached MAX_PAGES no further HTML page is processed: no
\* step raises total_pages or html_files or writes a processed page.
C1_PageCap ==
    [][ /\ stats'.total_pages <= config'.MAX_PAGES
        /\ stats.total_pages >= config.MAX_PAGES =>
              /\ stats'.total_pages = stats.total_pages
              /\ stats'.html_files = stats.html_files
              /\ saved' = saved ]_vars

\* the page limit stopped the crawl while URLs were still queued
C1_Witness ==
    /\ pc = "done"
    /\ stats.total_pages = config.MAX_PAGES
    /\ urls_to_visit # {}

\* C2: once stats['total_size'] has reached MAX_TOTAL_SIZE no further HTTP
\* request is issued, whatever is queued.
C2_SizeCap ==
    [][ stats.total_size >= MAX_TOTAL_SIZE => req_count' = req_count ]_vars

\* C3: breadth-first order: a URL first queued at link distance d is fetched
\* before any URL first queued at distance d+1, so when a URL is fetched no
\* URL of the next distance has been fetched yet.
C3_BreadthFirst ==
    [][ \A u \in visited_urls' \ visited_urls :
            \A v \in visited_urls : depth[v] # depth[u] + 1 ]_vars

\* C4: every URL is requested at most once, and a URL of visited_urls is
\* never put into urls_to_visit again.
C4_VisitedOnce ==
    /\ \A u \in DOMAIN req_count : req_count[u] <= 1
    /\ visited_urls \cap urls_to_visit = {}

\* pages that link back to fetched pages (and to themselves, through the
\* overlay) have been processed
C4_Witness ==
    /\ base_url = Root
    /\ {Root, PageA, PageB} \subseteq DOMAIN saved
    /\ pc = "done"

\* C5: with RESPECT_ROBOTS and a loaded robots.txt, every requested URL, the
\* start URL included, is allowed by is_allowed_by_robots.
C5_RobotsRespected ==
    (config.RESPECT_ROBOTS /\ robots_rules # NoRobots) =>
        \A u \in DOMAIN req_count : is_allowed_by_robots(u)

\* C6: when archive_website finishes, in every saved HTML page each href/src
\* that refers to a same-domain URL with an entry in url_to_local has been
\* replaced by the path of the local copy.
C6_LinksRewritten ==
    pc = "done" =>
        \A p \in DOMAIN saved : \A i \in DOMAIN Links(p) :
            LET target == normalize_url(Links(p)[i], p) IN
            (target \in DOMAIN url_to_local /\ target.netloc = base_domain) =>
                saved[p][i] = LocalRef(url_to_local[target])

\* C7: every URL requested or queued has the network location base_domain
\* (no other host, no URL without a network location), and a link to
\* another host is kept as its absolute URL.
C7_SameDomain ==
    /\ \A u \in DOMAIN req_count \cup urls_to_visit : u.netloc = base_domain
    /\ \A p \in DOMAIN saved : \A i \in DOMAIN Links(p) :
          LET target == normalize_url(Links(p)[i], p) IN
          (target # NoneUrl /\ IsExternal(target)) => saved[p][i] = Href("abs", target)

\* C8: a failed download or a failed process_html_file leaves the crawl loop
\* running with the remaining queued URLs still queued, and archive_website
\* returns None only when an exception was raised after the crawl loop.
C8_FailureDoesNotAbort ==
    [][ /\ ( \/ stats'.failed_downloads > stats.failed_downloads
             \/ ( /\ stats'.total_pages > stats.total_pages
                  /\ stats'.html_files = stats.html_files ) ) =>
              /\ pc' = "crawl"
              /\ result' = "none yet"
              /\ (urls_to_visit \ visited_urls') \subseteq urls_to_visit'
        /\ ~(pc = "crawl" /\ pc' = "done")
        /\ (result' = "None") => (pc = "post" \/ result = "None") ]_vars

\* a run with a failed download and a failed page still processed other
\* pages and returned the report
C8_Witness ==
    /\ pc = "done"
    /\ result = "report"
    /\ stats.failed_downloads >= 1
    /\ stats.total_pages > stats.html_files
    /\ stats.html_files >= 1

\* C11: a download whose Content-Length or whose streamed byte count exceeds
\* MAX_FILE_SIZE returns failure, leaves no file at the local path, and
\* leaves total_size, total_files, the category counters and url_to_local
\* unchanged.
C11_FileSizeCap ==
    [][ LET d == last_download'
            local_path == generate_local_path(d.url,
                              get_file_category(d.url, ContentType(d.url)))
        IN  ( /\ req_count' # req_count
              /\ d.outcome \in {"ok", "ok_chunked"}
              /\ BodySize(d.url) > MAX_FILE_SIZE ) =>
                /\ ~d.success
                /\ local_path \notin files'
                /\ stats'.total_size = stats.total_size
                /\ stats'.total_files = stats.total_files
                /\ stats'.css_files = stats.css_files
                /\ stats'.other_files = stats.other_files
                /\ url_to_local' = url_to_local ]_vars

\* an oversized body without Content-Length was streamed and rejected, after
\* other files had been downloaded
C11_Witness ==
    /\ last_download.outcome = "ok_chunked"
    /\ BodySize(last_download.url) > MAX_FILE_SIZE
    /\ ~last_download.success
    /\ stats.total_files >= 1
    /\ files # {}

-----------------------------------------------------------------------------
(* Claims about the downloader GUIs *)

\* C9: Dailymotion GUI: at most one download_video thread is active at any
\* time, whatever the interleaving of the clicks with the worker.
C9_OneDownloadWorker == Cardinality(DmActive) <= 1

\* C10: YouTube Music GUI: at most one start_download thread is active at
\* any time.
C10_OneMusicWorker == Cardinality(YmActive) <= 1

\* C12: GoogleDriveManager.save_to_drive never overwrites an existing Drive
\* file: a file of the Drive folder stays in the folder with the content it
\* has, whatever is saved afterwards.
C12_NeverOverwrites ==
    [][ \A name \in DOMAIN dm_drive :
            name \in DOMAIN dm_drive' /\ dm_drive'[name] = dm_drive[name] ]_vars

-----------------------------------------------------------------------------
(* Claims about the Drive copy of the archiver *)

\* C13: sync_to_drive(delete_original=True) and save_to_drive(delete_local=
\* True) delete the local copy only after a successful copy: when the mount
\* or the copy failed, the local directory is as it was before the call and
\* the call returned False.
C13_DeleteOnlyAfterCopy ==
    (drv_last.op # "none" /\ drv_last.delete /\ drv_last.failed) =>
        /\ drv_last.ret = FALSE
        /\ drv_local = drv_last.before

\* a copy that failed after it had written a file to Drive, with deletion
\* asked for and a non-empty local directory
C13_Witness ==
    /\ drv_last.op = "sync_to_drive"
    /\ drv_last.delete
    /\ drv_last.failed
    /\ drv_mounted
    /\ drv_remote # {}
    /\ Cardinality(drv_local) = MaxFiles

-----------------------------------------------------------------------------
(* Claims about the Tubi downloader GUI *)

\* the first five lines of the uploaded file that are not empty once
\* stripped, in file order
FirstFiveLines ==
    LET kept == SelectSeq(tubi_content, LAMBDA line : strip(line) # "")
        urls == [k \in DOMAIN kept |-> strip(kept[k])]
    IN  IF Len(urls) > 5 THEN SubSeq(urls, 1, 5) ELSE urls

\* C14: the batch passes at most the first 5 non-empty lines of the file to
\* download_tubi_clean, in file order and each exactly once; a failed URL
\* does not stop the remaining ones (when the handler reaches its summary
\* every one of these lines has been passed), and success_count never
\* exceeds the number of URLs processed.
C14_BatchOfFive ==
    /\ Len(tubi_calls) <= 5
    /\ Len(tubi_calls) <= Len(FirstFiveLines)
    /\ \A k \in DOMAIN tubi_calls : tubi_calls[k] = FirstFiveLines[k]
    /\ tubi_pc = "done" => tubi_calls = FirstFiveLines
    /\ tubi_success <= Len(tubi_results)
    /\ Len(tubi_results) <= Len(tubi_calls)

\* a file with more than five URLs among empty lines: the first download
\* failed, later ones succeeded, and the batch reached its summary
C14_Witness ==
    /\ tubi_pc = "done"
    /\ Len(SelectSeq(tubi_content, LAMBDA line : strip(line) # "")) > 5
    /\ Len(tubi_calls) = 5
    /\ tubi_results[1] = FALSE
    /\ tubi_success >= 1

-----------------------------------------------------------------------------
(* Claims about robots.txt *)

\* a Disallow prefix of the path in the rules of agent that no strictly
\* longer Allow prefix of the same agent overrides
ForbiddenFor(agent, path) ==
    \E d \in Range(robots_rules[agent].disallow) :
        /\ d # << >>
        /\ StartsWith(path, d)
        /\ ~\E a \in Range(robots_rules[agent].allow) :
                StartsWith(path, a) /\ Len(a) > Len(d)

\* C15: is_allowed_by_robots rejects a URL exactly when, in the group of '*'
\* or of the configured USER_AGENT, its path starts with a non-empty
\* Disallow prefix and that group has no strictly longer Allow prefix of the
\* path; other groups and empty Disallow lines forbid nothing.
C15_RobotsMatching ==
    rb_last # NoCheck =>
        ( rb_last.allowed <=>
            ~\E agent \in DOMAIN robots_rules \cap {"*", USER_AGENT} :
                 ForbiddenFor(agent, rb_last.url.path) )

\* /p/x was accepted under Disallow: /p because of Allow: /p/x, with an
\* empty Disallow line in the same group
C15_Witness ==
    /\ "*" \in DOMAIN robots_rules
    /\ <<"/", "p">> \in Range(robots_rules["*"].disallow)
    /\ << >> \in Range(robots_rules["*"].disallow)
    /\ <<"/", "p", "/", "x">> \in Range(robots_rules["*"].allow)
    /\ rb_last.url = Priv
    /\ rb_last.allowed

-----------------------------------------------------------------------------
(* Claims about the end of archive_website *)

PostCrawlOrder == <<"index", "server", "drive", "zip", "report">>

\* the post-crawl steps of the try block that have run, in the order they ran
StepsRun == SelectSeq(steps, LAMBDA step : step \in Range(PostCrawlOrder))

\* the steps the configuration asks for, in the order of the claim
StepsAskedFor ==
    SelectSeq(PostCrawlOrder,
              LAMBDA step : CASE step = "server" -> config.CREATE_LOCAL_SERVER
                              [] step = "drive"  -> config.SAVE_TO_DRIVE /\ drv_path
                              [] step = "zip"    -> config.COMPRESS_ARCHIVE
                              [] OTHER           -> TRUE)

\* C16: the post-crawl steps run in the order archive index, serve.py (if
\* CREATE_LOCAL_SERVER), Drive copy (only if SAVE_TO_DRIVE and a drive_path
\* exists), ZIP (if COMPRESS_ARCHIVE), report: what has run is always an
\* initial part of that list, all of it when the try block returns the
\* report, and nothing of it has run while the crawl loop is running.
C16_PostCrawlOrder ==
    /\ pc = "crawl" => steps = << >>
    /\ Len(StepsRun) <= Len(StepsAskedFor)
    /\ \A k \in DOMAIN StepsRun : StepsRun[k] = StepsAskedFor[k]
    /\ (result = "report" /\ caught = "none") => StepsRun = StepsAskedFor

\* a run without Drive path and without ZIP returned its report after the
\* index and serve.py
C16_Witness ==
    /\ result = "report"
    /\ caught = "none"
    /\ steps = <<"index", "server", "report">>
    /\ config.SAVE_TO_DRIVE
    /\ ~drv_path

\* C17: the crawl loop of archive_website always ends, also when no fetched
\* URL is HTML and when downloads fail.
C17_CrawlTerminates == <>(pc # "crawl")

\* the loop ended with urls_to_visit empty although every download failed
C17_Witness ==
    /\ pc = "post"
    /\ urls_to_visit = {}
    /\ stats.failed_downloads >= 1
    /\ stats.total_files = 0

\* C18: archive_website returns the report when the crawl and the post-crawl
\* steps complete; on KeyboardInterrupt it writes the archive index and
\* returns a report; on any other exception raised outside the per-URL
\* handlers it returns None.  So a finished call has returned the report or
\* None, and the report after an interrupt.
C18_Outcome ==
    pc = "done" =>
        /\ result \in {"report", "None"}
        /\ caught = "none" => (result = "report" /\ StepsRun = StepsAskedFor)
        /\ caught = "KeyboardInterrupt" =>
              (result = "report" /\ <<"index.html">> \in files)
        /\ caught = "Exception" => result = "None"

-----------------------------------------------------------------------------
(* Claims about the Dailymotion button protocol *)

\* the threads whose try block is still running
DmWorking ==
    {t \in DOMAIN dm_threads : dm_threads[t] \in {"try", "save_to_drive", "copy"}}

\* C19: from the click on Download until the worker leaves its try block the
\* Download and Fetch buttons are disabled and Cancel is enabled, and when
\* the worker has ended Download and Fetch are enabled and Cancel is
\* disabled.
C19_ButtonProtocol ==
    [][ /\ (\E t \in DOMAIN dm_threads' : dm_threads'[t] \in {"try", "save_to_drive", "copy"}) =>
              /\ dm_disabled'.download
              /\ dm_disabled'.fetch
              /\ ~dm_disabled'.cancel
        /\ (\E t \in DOMAIN dm_threads :
                dm_threads[t] # "ended" /\ dm_threads'[t] = "ended") =>
              /\ ~dm_disabled'.download
              /\ ~dm_disabled'.fetch
              /\ dm_disabled'.cancel ]_vars

-----------------------------------------------------------------------------
(* Claims about the archiver GUI *)

\* C20: 'Save to Drive', 'Download ZIP' and 'View Archive' are disabled
\* initially and enabled only after a run of archive_website returned a
\* report: while no run has returned one, whatever else has happened (runs
\* that raised or returned None), all three are disabled.
C20_ButtonsNeedReport ==
    (\E b \in DOMAIN gui_disabled : ~gui_disabled[b]) =>
        \E k \in DOMAIN gui_runs : gui_runs[k] = "report"

\* after a run that returned None and a run that raised the buttons are
\* still disabled
C20_Witness ==
    /\ gui_runs = <<"None", "raised">>
    /\ gui_pc = "idle"
    /\ \A b \in DOMAIN gui_disabled : gui_disabled[b]

====
